---- MODULE Spec2Model ----
(***************************************************************************)
(* A model of the land-allocation leaf (LandLeaf, land_leaf.cpp) and of    *)
(* the collaborators it calls: the marketplace, the carbon content         *)
(* calculator, the discrete choice function and the model time.            *)
(*                                                                         *)
(* C++ doubles are modelled as exact rationals <<n, d>> in lowest terms    *)
(* with d > 0.  One leaf is modelled; the operations of a period act on    *)
(* the current period curPer, in the order the land allocator drives them: *)
(* calibration pass, initCalc, then repeated trial evaluation.             *)
(***************************************************************************)
EXTENDS Integers, Sequences, FiniteSets, TLC

(***************************************************************************)
(* Bounds of the model.                                                    *)
(***************************************************************************)
\* Number of model periods (Modeltime::getmaxper()); periods are 0..MaxPer-1.
MaxPer == 3

Periods == 0 .. (MaxPer - 1)

(***************************************************************************)
(* double arithmetic, as exact rationals.                                  *)
(***************************************************************************)
RECURSIVE GCD(_, _)
GCD(a, b) == IF b = 0 THEN a ELSE GCD(b, a % b)

Abs(x) == IF x < 0 THEN -x ELSE x

\* The rational n/d (d # 0) in lowest terms with a positive denominator.
Norm(n, d) ==
    LET g == GCD(Abs(n), Abs(d))
    IN  IF d < 0 THEN << (0 - n) \div g, (0 - d) \div g >>
                 ELSE << n \div g, d \div g >>

Q(n) == << n, 1 >>
Frac(n, d) == Norm(n, d)
Zero == Q(0)

Add(x, y) == Norm(x[1] * y[2] + y[1] * x[2], x[2] * y[2])
Sub(x, y) == Norm(x[1] * y[2] - y[1] * x[2], x[2] * y[2])
Mul(x, y) == Norm(x[1] * y[1], x[2] * y[2])
\* x / y for y # 0 (every division of the leaf is guarded or has a nonzero divisor here).
Div(x, y) == Norm(x[1] * y[2], x[2] * y[1])
Lt(x, y)  == x[1] * y[2] < y[1] * x[2]
Le(x, y)  == x[1] * y[2] <= y[1] * x[2]
Gt(x, y)  == Lt(y, x)
Ge(x, y)  == Le(y, x)
\* std::max( a, b ): returns b when a < b, else a.
Max(x, y) == IF Lt(x, y) THEN y ELSE x

(***************************************************************************)
(* Model time (Modeltime, CarbonModelUtils): external to land_leaf.cpp.    *)
(***************************************************************************)
StartYear == 1990
TimeStep  == 15
getmaxper == MaxPer
getper_to_yr(aPeriod) == StartYear + TimeStep * aPeriod
getyr_to_per(aYear)   == (aYear - StartYear) \div TimeStep
\* CarbonModelUtils::getEndYear(): the last year of the model horizon.
getEndYear == getper_to_yr(getmaxper - 1)

(***************************************************************************)
(* Sentinels and constants of the leaf.                                    *)
(***************************************************************************)
\* "not yet computed" / "copy forward" marker of mShare and mProfitScaler.
UNINIT == Q(-1)
\* Marketplace::NO_MARKET_PRICE, the value getPrice returns for a missing market.
NO_MARKET_PRICE == Q(1000000)
\* Default of mNewTechStartYear and of mGhostShareNumeratorForLeaf (constructor).
DefaultNewTechStartYear == 2020
DefaultGhostShare == Frac(1, 4)

CO2_LUC == "CO2_LUC"
\* mLandExpansionCostName: the name read from landConstraintCurve.
EXPANSION == "land-expansion"
MarketKeys == {CO2_LUC, EXPANSION}

VARIABLES
    \* ---- configuration read by XMLParse / completeInit ----
    mIsNewTech,                  \* isNewTechnology
    mIsLandExpansionCost,        \* a landConstraintCurve was read
    mLandUseHistory,             \* TRUE iff a land-use history was read (non-null)
    mNewTechStartYear,
    mGhostShareNumeratorForLeaf,
    mReadinLandAllocation,       \* [Periods -> rational]
    mMinAboveGroundCDensity,
    mMinBelowGroundCDensity,
    mSocialDiscountRate,
    mCarbonPriceIncreaseRate,    \* [Periods -> rational]
    \* ---- per-period state of the leaf ----
    mLandAllocation,
    mShare,
    mProfitRate,
    mProfitScaler,
    mCalibrationProfitRate,
    mLastCalcCO2Value,
    mLastCalcExpansionValue,
    \* ---- collaborators ----
    mCarbonContentCalc,          \* the owned carbon content calculator
    marketDemand,                \* Marketplace: [MarketKeys -> [Periods -> rational]]
    marketPrice,                 \* Marketplace: [MarketKeys -> rational], current trial prices
    dependencies,                \* DependencyFinder: set of registered market names
    \* ---- sectors of the region ----
    simulList,                   \* [SectorNames -> sorted list of sector names]
    inputList,                   \* [SectorNames -> sorted list of sector names]
    compared,                    \* the last comparison made by DependencyOrdering
    \* ---- control ----
    status,                      \* "parsed", "running", "exited" (exit(-1)), "aborted" (assert)
    curPer,                      \* the period being processed
    pc,                          \* position of the land allocator within the period
    lastCall                     \* the last operation: name, period, result, external calls

leafCfgVars == << mIsNewTech, mIsLandExpansionCost, mLandUseHistory, mNewTechStartYear,
                  mGhostShareNumeratorForLeaf, mReadinLandAllocation,
                  mMinAboveGroundCDensity, mMinBelowGroundCDensity, mSocialDiscountRate,
                  mCarbonPriceIncreaseRate >>
sectorVars == << simulList, inputList, compared >>
cfgVars  == << leafCfgVars, sectorVars >>
leafVars == << mLandAllocation, mShare, mProfitRate, mProfitScaler,
               mCalibrationProfitRate, mLastCalcCO2Value, mLastCalcExpansionValue >>
envVars  == << mCarbonContentCalc, marketDemand, marketPrice, dependencies >>
ctlVars  == << status, curPer, pc, lastCall >>
vars     == << cfgVars, leafVars, envVars, ctlVars >>

\* One external call made by an operation.
Call(fn, key, val, prev) == [fn |-> fn, key |-> key, val |-> val, prev |-> prev]
\* The record of an operation: its name, period, argument, returned value and
\* external calls.
Op(name, aPeriod, arg, ret, calls) ==
    [op |-> name, per |-> aPeriod, arg |-> arg, ret |-> ret, calls |-> calls]


(***************************************************************************)
(* Marketplace (external): running total demand per (market, period) and   *)
(* the current trial prices.                                               *)
(***************************************************************************)
\* getPrice( marketKey, region, period ): the trial price, NO_MARKET_PRICE if none.
getPrice(aMarket, aPeriod) == marketPrice[aMarket]

\* addToDemand( market, region, value, previousContribution, period ): the total
\* of (market, period) is adjusted by value - previousContribution.
DemandAfterAdd(aDemand, aMarket, aValue, aLastValue, aPeriod) ==
    [aDemand EXCEPT ![aMarket][aPeriod] = Add(@, Sub(aValue, aLastValue))]

\* ... and the value to store as the previous contribution of the next call.
AddToDemandResult(aValue, aLastValue) == aValue

(***************************************************************************)
(* Discrete choice function of the parent node (external): a logit with    *)
(* exponent 1.                                                             *)
(***************************************************************************)
calcUnnormalizedShare(aShareWeight, aProfitRate, aPeriod) == Mul(aShareWeight, aProfitRate)
\* the calibration inverse of calcUnnormalizedShare (aProfitRate # 0)
calcShareWeight(aShare, aProfitRate, aPeriod) == Div(aShare, aProfitRate)
calcImpliedCost(aShare, aAverageProfitRateAbove, aPeriod) == Mul(aShare, aAverageProfitRateAbove)

(***************************************************************************)
(* Sectors of a region and their ordering (Sector.h).                      *)
(***************************************************************************)
\* Sector names, written as their ranks in the lexicographic order of
\* std::string: name a < name b iff rank a < rank b.
SectorNames == {1, 2, 3}

NameLess(aName, bName) == aName < bName

\* The sorted list holding the names of a set.
RECURSIVE SortedList(_)
SortedList(aNames) ==
    IF aNames = {} THEN << >>
    ELSE LET least == CHOOSE n \in aNames : \A m \in aNames : ~NameLess(m, n)
         IN  << least >> \o SortedList(aNames \ {least})

\* std::lower_bound over [first, first + len) of a sorted list.
RECURSIVE lower_bound(_, _, _, _)
lower_bound(aList, first, len, aName) ==
    IF len = 0 THEN first
    ELSE LET half == len \div 2
             middle == first + half
         IN  IF NameLess(aList[middle], aName)
                THEN lower_bound(aList, middle + 1, len - half - 1, aName)
                ELSE lower_bound(aList, first, half, aName)

\* std::binary_search( list.begin(), list.end(), name )
binary_search(aList, aName) ==
    LET i == lower_bound(aList, 1, Len(aList), aName)
    IN  i # Len(aList) + 1 /\ ~NameLess(aName, aList[i])

\* No comparison was made yet.
NoComparison == [lhs |-> 0, rhs |-> 0, ret |-> FALSE]

\* sector::DependencyOrdering::operator()( lhs, rhs )
DependencyOrdering(lhs, rhs) ==
    IF binary_search(simulList[lhs], rhs)
       THEN NameLess(lhs, rhs)
       ELSE IF binary_search(inputList[lhs], rhs)
               THEN FALSE
               ELSE NameLess(lhs, rhs)

\* The region's sort compares two of its sectors.
Compare(lhs, rhs) ==
    /\ compared' = [lhs |-> lhs, rhs |-> rhs, ret |-> DependencyOrdering(lhs, rhs)]
    /\ UNCHANGED << leafCfgVars, simulList, inputList, leafVars, envVars, ctlVars >>

(***************************************************************************)
(* The state after construction and XMLParse.                              *)
(***************************************************************************)
\* The densities and discount factors the carbon content calculator reports.
CalcAboveDensity == Frac(1, 500)
CalcBelowDensity == Frac(1, 1000)
CalcDiscountFactor == Q(1)

\* Carbon configurations: minimum densities, social discount rate and
\* carbon-price increase rate.
CarbonProfile(minAbove, minBelow, social, increase) ==
    [minAbove |-> minAbove, minBelow |-> minBelow, social |-> social, increase |-> increase]
PlainCarbon == CarbonProfile(Zero, Zero, Frac(1, 100), Zero)
CarbonProfiles ==
    { PlainCarbon,
      CarbonProfile(Frac(1, 1000), Zero, Frac(1, 100), Zero),      \* a floor below the density
      CarbonProfile(Frac(1, 250), Zero, Frac(1, 100), Zero),       \* a floor above the density
      CarbonProfile(Zero, Zero, Frac(1, 100), Frac(2, 100)) }      \* price grows faster than the discount rate

ReadinVals == { Q(-1), Q(0), Q(2) }
\* Read-in land allocation vectors: constant ones, a rising one and one that
\* is negative in the last period only.
ReadinProfiles ==
    { [p \in Periods |-> v] : v \in ReadinVals }
        \cup { [p \in Periods |-> Q(p + 1)] }
        \cup { [p \in Periods |-> IF p = MaxPer - 1 THEN Q(-1) ELSE Q(2)] }
NonNegReadinProfiles ==
    { r \in ReadinProfiles : \A p \in Periods : Ge(r[p], Zero) }

\* Start years an entrant may be configured with: the year of a model period.
StartYears == { getper_to_yr(p) : p \in Periods }
GhostShares == { DefaultGhostShare, Frac(1, 2) }

\* The leaf as LandLeaf::LandLeaf and XMLParse leave it, for a configuration
\* drawn from the given sets.
LeafAsParsed(newTechs, startYears, ghostShares, expansions, histories, readins, carbons) ==
    /\ mIsNewTech \in newTechs
    /\ mIsLandExpansionCost \in expansions
    /\ mLandUseHistory \in histories
    /\ mNewTechStartYear \in (IF mIsNewTech THEN startYears ELSE {DefaultNewTechStartYear})
    /\ mGhostShareNumeratorForLeaf \in (IF mIsNewTech THEN ghostShares ELSE {DefaultGhostShare})
    /\ mReadinLandAllocation \in readins
    /\ \E c \in carbons :
          /\ mMinAboveGroundCDensity = c.minAbove
          /\ mMinBelowGroundCDensity = c.minBelow
          /\ mSocialDiscountRate = c.social
          /\ mCarbonPriceIncreaseRate = [p \in Periods |-> c.increase]
    /\ mLandAllocation = mReadinLandAllocation
    /\ mShare = [p \in Periods |-> UNINIT]
    /\ mProfitRate = [p \in Periods |-> Zero]
    /\ mProfitScaler = [p \in Periods |-> UNINIT]
    /\ mCalibrationProfitRate = [p \in Periods |-> Zero]
    /\ mLastCalcCO2Value = Zero
    /\ mLastCalcExpansionValue = Zero
    /\ mCarbonContentCalc = [history |-> FALSE, landUse |-> [p \in Periods |-> Zero]]
    /\ marketDemand = [k \in MarketKeys |-> [p \in Periods |-> Zero]]
    /\ marketPrice = [k \in MarketKeys |-> NO_MARKET_PRICE]
    /\ dependencies = {}
    /\ status = "parsed"
    /\ curPer = 0
    /\ pc = "calib0"
    /\ lastCall = Op("XMLParse", 0, Zero, Zero, {})

\* A region whose sectors have empty simul and input lists.
NoSectorLists ==
    /\ simulList = [n \in SectorNames |-> << >>]
    /\ inputList = [n \in SectorNames |-> << >>]
    /\ compared = NoComparison

InitLeaf(newTechs, startYears, ghostShares, expansions, histories, readins, carbons) ==
    /\ LeafAsParsed(newTechs, startYears, ghostShares, expansions, histories, readins, carbons)
    /\ NoSectorLists

(***************************************************************************)
(* completeInit and initLandUseHistory.                                    *)
(***************************************************************************)
\* (variant: a read-in allocation of zero is rejected too)
NegativeLandAllocation_NonPositive == \E p \in Periods : Le(mLandAllocation[p], Zero)
\* The check of completeInit on the read-in land allocation.
NegativeLandAllocation == \E p \in Periods : Lt(mLandAllocation[p], Zero)

\* (variant: the null test of initLandUseHistory inverted)
MissingLandUseHistory_Inverted == mLandUseHistory
\* initLandUseHistory exits when no history was read in.
MissingLandUseHistory == ~mLandUseHistory

completeInit ==
    /\ status = "parsed"
    /\ IF NegativeLandAllocation
          THEN /\ status' = "exited"
               /\ lastCall' = Op("completeInit", 0, Zero, Zero, {Call("calc.completeInit", "", Zero, Zero)})
               /\ UNCHANGED << mCarbonContentCalc, dependencies >>
          ELSE IF MissingLandUseHistory
          THEN /\ status' = "exited"
               /\ lastCall' = Op("completeInit", 0, Zero, Zero, {Call("calc.completeInit", "", Zero, Zero)})
               /\ UNCHANGED << mCarbonContentCalc, dependencies >>
          ELSE /\ status' = "running"
               /\ mCarbonContentCalc' = [mCarbonContentCalc EXCEPT !.history = TRUE]
               /\ dependencies' = IF mIsLandExpansionCost THEN {EXPANSION} ELSE {}
               /\ lastCall' = Op("completeInit", 0, Zero, Zero,
                                 {Call("calc.completeInit", "", Zero, Zero),
                                  Call("calc.initLandUseHistory", "", Zero, Zero)}
                                 \cup (IF mIsLandExpansionCost
                                          THEN {Call("addDependency", EXPANSION, Zero, Zero)}
                                          ELSE {}))
    /\ UNCHANGED << cfgVars, leafVars, marketDemand, marketPrice, curPer, pc >>

(***************************************************************************)
(* initCalc: forward projection of scaler and share.                       *)
(***************************************************************************)
\* (variant: copying forward from the second period on)
CopiesForward_FromSecondPeriod(aPeriod) == aPeriod > 0

\* Periods from which initCalc copies forward (aPeriod > 1).
CopiesForward(aPeriod) == aPeriod > 1

InitCalcScaler(aPeriod) ==
    IF CopiesForward(aPeriod) /\ mProfitScaler[aPeriod] = UNINIT
       THEN [mProfitScaler EXCEPT ![aPeriod] = mProfitScaler[aPeriod - 1]]
       ELSE mProfitScaler

InitCalcShare(aPeriod) ==
    IF CopiesForward(aPeriod) /\ mShare[aPeriod] = UNINIT
       THEN [mShare EXCEPT ![aPeriod] = mShare[aPeriod - 1]]
       ELSE mShare

\* (variant: the check made on the scaler as it was before the copy)
InitCalcFatal_BeforeCopy(aScaler, aPeriod) == mProfitScaler[aPeriod] = UNINIT

\* The scaler is still uninitialized after the copy: exit( -1 ).
InitCalcFatal(aScaler, aPeriod) == aScaler[aPeriod] = UNINIT

initCalc(aPeriod) ==
    /\ status = "running"
    /\ pc \in {"calib0", "calibDone"}
    /\ mProfitScaler' = InitCalcScaler(aPeriod)
    /\ mShare' = InitCalcShare(aPeriod)
    /\ IF InitCalcFatal(mProfitScaler', aPeriod)
          THEN status' = "exited" /\ pc' = pc
          ELSE status' = status /\ pc' = "solve"
    /\ lastCall' = Op("initCalc", aPeriod, Zero, Zero, {})
    /\ UNCHANGED << cfgVars, mLandAllocation, mProfitRate, mCalibrationProfitRate,
                    mLastCalcCO2Value, mLastCalcExpansionValue, envVars, curPer >>

\* The land allocator moves on to the next period.
NextPeriod ==
    /\ status = "running"
    /\ pc = "solve"
    /\ curPer < MaxPer - 1
    /\ curPer' = curPer + 1
    /\ pc' = "calib0"
    /\ lastCall' = Op("NextPeriod", curPer + 1, Zero, Zero, {})
    /\ UNCHANGED << cfgVars, leafVars, envVars, status >>


\* The land allocator runs the calibration pass of the current period again,
\* after trial evaluations of the period.
Recalibrate ==
    /\ status = "running"
    /\ pc = "solve"
    /\ pc' = "calib0"
    /\ lastCall' = Op("Recalibrate", curPer, Zero, Zero, {})
    /\ UNCHANGED << cfgVars, leafVars, envVars, status, curPer >>
(***************************************************************************)
(* Calibration pass: setInitShares, calculateCalibrationProfitRate,        *)
(* calculateProfitScalers.                                                 *)
(***************************************************************************)
\* The parent node's calibration land: this leaf's read-in land plus that of
\* its siblings.
NodeCalLandAllocation(aSiblingLand, aPeriod) ==
    Add(mReadinLandAllocation[aPeriod], aSiblingLand)

\* (variant: the share is taken from the last computed allocation)
InitShareOf_FromLastAllocation(aLandAllocationAbove, aPeriod) ==
    IF Gt(aLandAllocationAbove, Zero)
       THEN Div(mLandAllocation[aPeriod], aLandAllocationAbove)
       ELSE Zero
\* (variant: no else branch, the share keeps its previous value)
InitShareOf_NoElse(aLandAllocationAbove, aPeriod) ==
    IF Gt(aLandAllocationAbove, Zero)
       THEN Div(mReadinLandAllocation[aPeriod], aLandAllocationAbove)
       ELSE mShare[aPeriod]

\* mShare[ aPeriod ] as setInitShares leaves it: the division is made only
\* for a positive parent allocation.
InitShareOf(aLandAllocationAbove, aPeriod) ==
    IF Gt(aLandAllocationAbove, Zero)
       THEN Div(mReadinLandAllocation[aPeriod], aLandAllocationAbove)
       ELSE Zero

setInitShares(aLandAllocationAbove, aPeriod) ==
    /\ status = "running"
    /\ pc = "calib0"
    /\ mShare' = [mShare EXCEPT ![aPeriod] = InitShareOf(aLandAllocationAbove, aPeriod)]
    /\ pc' = "calib1"
    /\ lastCall' = Op("setInitShares", aPeriod, aLandAllocationAbove,
                      Mul(mShare'[aPeriod], mProfitRate[aPeriod]), {})
    /\ UNCHANGED << cfgVars, mLandAllocation, mProfitRate, mProfitScaler,
                    mCalibrationProfitRate, mLastCalcCO2Value, mLastCalcExpansionValue,
                    envVars, status, curPer >>

\* (variant: the implied cost is stored for an entrant too)
CalibrationProfitRateOf_EntrantToo(aAverageProfitRateAbove, aPeriod) ==
    [mCalibrationProfitRate EXCEPT
        ![aPeriod] = calcImpliedCost(mShare[aPeriod], aAverageProfitRateAbove, aPeriod)]
CalibrationProfitRateOf(aAverageProfitRateAbove, aPeriod) ==
    IF ~mIsNewTech
       THEN [mCalibrationProfitRate EXCEPT
                ![aPeriod] = calcImpliedCost(mShare[aPeriod], aAverageProfitRateAbove, aPeriod)]
       ELSE mCalibrationProfitRate

calculateCalibrationProfitRate(aAverageProfitRateAbove, aPeriod) ==
    /\ status = "running"
    /\ pc = "calib1"
    /\ mCalibrationProfitRate' = CalibrationProfitRateOf(aAverageProfitRateAbove, aPeriod)
    /\ pc' = "calib2"
    /\ lastCall' = Op("calculateCalibrationProfitRate", aPeriod, aAverageProfitRateAbove, Zero,
                      IF ~mIsNewTech
                         THEN {Call("calcImpliedCost", "", mShare[aPeriod], aAverageProfitRateAbove)}
                         ELSE {})
    /\ UNCHANGED << cfgVars, mLandAllocation, mShare, mProfitRate, mProfitScaler,
                    mLastCalcCO2Value, mLastCalcExpansionValue, envVars, status, curPer >>

\* The period of the entrant's configured start year.
NewTechStartPeriod == getyr_to_per(mNewTechStartYear)

\* (variant: the two writes of the entrant branch in the other order)
NewTechScalers_ZeroedLast(aNewTechProfitScaler, aPeriod) ==
    [[mProfitScaler EXCEPT ![NewTechStartPeriod] = aNewTechProfitScaler] EXCEPT ![aPeriod] = Zero]

\* (variant: every slot but the start period's is zeroed)
NewTechScalers_ZeroesOthers(aNewTechProfitScaler, aPeriod) ==
    [q \in Periods |-> IF q = NewTechStartPeriod THEN aNewTechProfitScaler ELSE Zero]
\* Entrant branch of calculateProfitScalers: the slot of aPeriod is zeroed,
\* then the slot of the start period receives the ghost-share scaler.
NewTechScalers(aNewTechProfitScaler, aPeriod) ==
    [[mProfitScaler EXCEPT ![aPeriod] = Zero] EXCEPT ![NewTechStartPeriod] = aNewTechProfitScaler]

\* (variant: only the observed profit is tested for zero)
CalibratedScaler_ProfitOnly(aPeriod) ==
    IF mProfitRate[aPeriod] = Zero
       THEN Zero
       ELSE calcShareWeight(mShare[aPeriod], mProfitRate[aPeriod], aPeriod)
\* (variant: the inversion is made at the calibration profit rate)
CalibratedScaler_AtCalibrationProfit(aPeriod) ==
    IF mCalibrationProfitRate[aPeriod] = Zero \/ mProfitRate[aPeriod] = Zero
       THEN Zero
       ELSE calcShareWeight(mShare[aPeriod], mCalibrationProfitRate[aPeriod], aPeriod)
\* Non-entrant branch: zero when either profit is exactly zero, else the
\* inverse of the choice function.
CalibratedScaler(aPeriod) ==
    IF mCalibrationProfitRate[aPeriod] = Zero \/ mProfitRate[aPeriod] = Zero
       THEN Zero
       ELSE calcShareWeight(mShare[aPeriod], mProfitRate[aPeriod], aPeriod)

\* The final warning: a negative scaler of aPeriod is set to zero.
ClampScaler(aScaler, aPeriod) ==
    IF Lt(aScaler[aPeriod], Zero) THEN [aScaler EXCEPT ![aPeriod] = Zero] ELSE aScaler

ProfitScalersOf(aCalibrationProfitForNewTech, aPeriod) ==
    ClampScaler(
        IF mIsNewTech
           THEN NewTechScalers(calcShareWeight(mGhostShareNumeratorForLeaf,
                                               aCalibrationProfitForNewTech, aPeriod), aPeriod)
           ELSE [mProfitScaler EXCEPT ![aPeriod] = CalibratedScaler(aPeriod)],
        aPeriod)

\* aCalibrationProfitForNewTech: what getParent()->getCalibrationProfitForNewTech
\* returns (read by entrant leaves only).
calculateProfitScalers(aCalibrationProfitForNewTech, aPeriod) ==
    /\ status = "running"
    /\ pc = "calib2"
    /\ mCalibrationProfitRate' =
          IF mIsNewTech
             THEN [mCalibrationProfitRate EXCEPT ![aPeriod] = aCalibrationProfitForNewTech]
             ELSE mCalibrationProfitRate
    /\ mProfitScaler' = ProfitScalersOf(aCalibrationProfitForNewTech, aPeriod)
    /\ pc' = "calibDone"
    /\ lastCall' = Op("calculateProfitScalers", aPeriod, aCalibrationProfitForNewTech, Zero,
                      IF mIsNewTech
                         THEN {Call("getCalibrationProfitForNewTech", "", aCalibrationProfitForNewTech, Zero),
                               Call("calcShareWeight", "", mGhostShareNumeratorForLeaf,
                                    aCalibrationProfitForNewTech)}
                         ELSE IF mCalibrationProfitRate[aPeriod] = Zero \/ mProfitRate[aPeriod] = Zero
                         THEN {}
                         ELSE {Call("calcShareWeight", "", mShare[aPeriod], mProfitRate[aPeriod])})
    /\ UNCHANGED << cfgVars, mLandAllocation, mShare, mProfitRate,
                    mLastCalcCO2Value, mLastCalcExpansionValue, envVars, status, curPer >>


(***************************************************************************)
(* Trial evaluation: setProfitRate / getCarbonSubsidy, calcLandShares,     *)
(* calcLandAllocation, calcLUCEmissions.                                   *)
(***************************************************************************)
\* A failed assert( ... ) aborts a debug build and is compiled out of a
\* release build (NDEBUG).
Builds == {"debug", "release"}

\* Child accessors of a leaf.  Both overloads of getChildAt are
\* assert( false ); return 0; -- a debug build aborts, a release build
\* returns the null pointer (0) to the caller.
ChildIndexes == {0, 1}

getNumChildren ==
    /\ status \in {"parsed", "running"}
    /\ lastCall' = Op("getNumChildren", curPer, Zero, Q(0), {})
    /\ UNCHANGED << cfgVars, leafVars, envVars, status, curPer, pc >>

getChildAt(aIndex, aBuild) ==
    /\ status \in {"parsed", "running"}
    /\ status' = IF aBuild = "debug" THEN "aborted" ELSE status
    /\ lastCall' = Op("getChildAt", curPer, Q(aIndex), Q(0), {})
    /\ UNCHANGED << cfgVars, leafVars, envVars, curPer, pc >>

getChildAtConst(aIndex, aBuild) ==
    /\ status \in {"parsed", "running"}
    /\ status' = IF aBuild = "debug" THEN "aborted" ELSE status
    /\ lastCall' = Op("getChildAt const", curPer, Q(aIndex), Q(0), {})
    /\ UNCHANGED << cfgVars, leafVars, envVars, curPer, pc >>

DollarConversion75To90 == Frac(2212, 1000)
ConversionFactor == Q(1000000)


\* (variant: only the sentinel is tested, not the sign of the price)
CarbonPriceExists_AnyMarketPrice(aCarbonPrice) == aCarbonPrice # NO_MARKET_PRICE
\* carbonPrice != Marketplace::NO_MARKET_PRICE && carbonPrice > 0.0
CarbonPriceExists(aCarbonPrice) == aCarbonPrice # NO_MARKET_PRICE /\ Gt(aCarbonPrice, Zero)

\* The subsidy computed when a carbon price exists.
CarbonSubsidyValue(aCarbonPrice, aPeriod) ==
    LET incrementalAboveCDensity == Sub(CalcAboveDensity, mMinAboveGroundCDensity)
        incrementalBelowCDensity == Sub(CalcBelowDensity, mMinBelowGroundCDensity)
    IN  Mul(Mul(Mul(Add(Mul(incrementalAboveCDensity, CalcDiscountFactor),
                        Mul(incrementalBelowCDensity, CalcDiscountFactor)),
                    Div(aCarbonPrice, DollarConversion75To90)),
                Sub(mSocialDiscountRate, mCarbonPriceIncreaseRate[aPeriod])),
            ConversionFactor)

getCarbonSubsidy(aPeriod) ==
    IF CarbonPriceExists(getPrice(CO2_LUC, aPeriod))
       THEN CarbonSubsidyValue(getPrice(CO2_LUC, aPeriod), aPeriod)
       ELSE Zero

\* assert( carbonSubsidy >= 0.0 ) fails
CarbonSubsidyAssertFails(aPeriod) ==
    /\ CarbonPriceExists(getPrice(CO2_LUC, aPeriod))
    /\ Lt(CarbonSubsidyValue(getPrice(CO2_LUC, aPeriod), aPeriod), Zero)

\* (variant: the expansion cost is charged to every leaf)
AdjustedProfitRate_AlwaysCharged(aProfitRate, aPeriod) ==
    Sub(aProfitRate, getPrice(EXPANSION, aPeriod))
\* The profit rate less the land expansion cost, if the leaf pays one.
AdjustedProfitRate(aProfitRate, aPeriod) ==
    IF mIsLandExpansionCost
       THEN Sub(aProfitRate, getPrice(EXPANSION, aPeriod))
       ELSE aProfitRate

\* (variant: no floor at zero)
ProfitRateOf_NoFloor(aAdjustedProfitRate, aCarbonSubsidy) ==
    Add(aAdjustedProfitRate, aCarbonSubsidy)

\* max( adjustedProfitRate + getCarbonSubsidy( ... ), 0.0 )
ProfitRateOf(aAdjustedProfitRate, aCarbonSubsidy) ==
    Max(Add(aAdjustedProfitRate, aCarbonSubsidy), Zero)

setProfitRate(aProfitRate, aPeriod, aBuild) ==
    /\ status = "running"
    /\ IF CarbonSubsidyAssertFails(aPeriod) /\ aBuild = "debug"
          THEN /\ status' = "aborted"
               /\ mProfitRate' = mProfitRate
          ELSE /\ status' = status
               /\ mProfitRate' = [mProfitRate EXCEPT
                     ![aPeriod] = ProfitRateOf(AdjustedProfitRate(aProfitRate, aPeriod),
                                               getCarbonSubsidy(aPeriod))]
    /\ lastCall' = Op("setProfitRate", aPeriod, aProfitRate, Zero,
                      {Call("getPrice", CO2_LUC, getPrice(CO2_LUC, aPeriod), Zero),
                       Call("getCarbonSubsidy", CO2_LUC, getCarbonSubsidy(aPeriod),
                            getPrice(CO2_LUC, aPeriod))}
                      \cup (IF mIsLandExpansionCost
                               THEN {Call("getPrice", EXPANSION, getPrice(EXPANSION, aPeriod), Zero)}
                               ELSE {}))
    /\ UNCHANGED << cfgVars, mLandAllocation, mShare, mProfitScaler, mCalibrationProfitRate,
                    mLastCalcCO2Value, mLastCalcExpansionValue, envVars, curPer, pc >>

\* (variant: the calibrated scaler is handed over whatever the profit rate)
EffectiveScaler_Unforced(aPeriod) == mProfitScaler[aPeriod]
\* The scaler handed to the choice function: forced to zero for a leaf
\* without profit.
EffectiveScaler(aPeriod) ==
    IF Le(mProfitRate[aPeriod], Zero) THEN Zero ELSE mProfitScaler[aPeriod]

\* (variant: the effective scaler is stored back into the leaf)
calcLandShares_StoresScaler(aPeriod) ==
    /\ status = "running"
    /\ pc = "solve"
    /\ mProfitScaler' = [mProfitScaler EXCEPT ![aPeriod] = EffectiveScaler(aPeriod)]
    /\ lastCall' = Op("calcLandShares", aPeriod, Zero,
                      calcUnnormalizedShare(EffectiveScaler(aPeriod), mProfitRate[aPeriod], aPeriod),
                      {Call("calcUnnormalizedShare", "", EffectiveScaler(aPeriod),
                            mProfitRate[aPeriod])})
    /\ UNCHANGED << cfgVars, mLandAllocation, mShare, mProfitRate, mCalibrationProfitRate,
                    mLastCalcCO2Value, mLastCalcExpansionValue, envVars, status, curPer, pc >>

\* (variant: the returned weight is stored as the share of the period)
calcLandShares_StoresShare(aPeriod) ==
    /\ status = "running"
    /\ pc = "solve"
    /\ mShare' = [mShare EXCEPT
          ![aPeriod] = calcUnnormalizedShare(EffectiveScaler(aPeriod), mProfitRate[aPeriod], aPeriod)]
    /\ lastCall' = Op("calcLandShares", aPeriod, Zero,
                      calcUnnormalizedShare(EffectiveScaler(aPeriod), mProfitRate[aPeriod], aPeriod),
                      {Call("calcUnnormalizedShare", "", EffectiveScaler(aPeriod),
                            mProfitRate[aPeriod])})
    /\ UNCHANGED << cfgVars, mLandAllocation, mProfitRate, mProfitScaler, mCalibrationProfitRate,
                    mLastCalcCO2Value, mLastCalcExpansionValue, envVars, status, curPer, pc >>

calcLandShares(aPeriod) ==
    /\ status = "running"
    /\ pc = "solve"
    /\ lastCall' = Op("calcLandShares", aPeriod, Zero,
                      calcUnnormalizedShare(EffectiveScaler(aPeriod), mProfitRate[aPeriod], aPeriod),
                      {Call("calcUnnormalizedShare", "", EffectiveScaler(aPeriod),
                            mProfitRate[aPeriod])})
    /\ UNCHANGED << cfgVars, leafVars, envVars, status, curPer, pc >>

\* The parent node normalizes the weights of its children and stores the
\* share of each (ALandAllocatorItem, outside land_leaf.cpp).
NodeSetShare(aShare, aPeriod) ==
    /\ status = "running"
    /\ pc = "solve"
    /\ mShare' = [mShare EXCEPT ![aPeriod] = aShare]
    /\ lastCall' = Op("NodeSetShare", aPeriod, aShare, Zero, {})
    /\ UNCHANGED << cfgVars, mLandAllocation, mProfitRate, mProfitScaler,
                    mCalibrationProfitRate, mLastCalcCO2Value, mLastCalcExpansionValue,
                    envVars, status, curPer, pc >>

\* assert( mShare[ aPeriod ] >= 0 && mShare[ aPeriod ] <= 1 )
ShareInRange(aPeriod) == Ge(mShare[aPeriod], Zero) /\ Le(mShare[aPeriod], Q(1))

\* (variant: the product, whatever the sign of the parent's allocation)
LandAllocationOf_Unguarded(aLandAllocationAbove, aShare) == Mul(aLandAllocationAbove, aShare)

LandAllocationOf(aLandAllocationAbove, aShare) ==
    IF Gt(aLandAllocationAbove, Zero) THEN Mul(aLandAllocationAbove, aShare) ELSE Zero

\* (variant: no previous contribution is resupplied)
LastExpansionContribution_None == Zero
\* The previous contribution the leaf resupplies to addToDemand.
LastExpansionContribution == mLastCalcExpansionValue

calcLandAllocation(aLandAllocationAbove, aPeriod, aBuild) ==
    /\ status = "running"
    /\ pc = "solve"
    /\ IF ~ShareInRange(aPeriod) /\ aBuild = "debug"
          THEN /\ status' = "aborted"
               /\ lastCall' = Op("calcLandAllocation", aPeriod, aLandAllocationAbove, Zero, {})
               /\ UNCHANGED << mLandAllocation, mLastCalcExpansionValue, mCarbonContentCalc,
                               marketDemand >>
          ELSE LET allocation == LandAllocationOf(aLandAllocationAbove, mShare[aPeriod])
               IN  /\ status' = status
                   /\ mLandAllocation' = [mLandAllocation EXCEPT ![aPeriod] = allocation]
                   /\ mCarbonContentCalc' =
                         [mCarbonContentCalc EXCEPT !.landUse[aPeriod] = allocation]
                   /\ IF mIsLandExpansionCost
                         THEN /\ marketDemand' = DemandAfterAdd(marketDemand, EXPANSION, allocation,
                                                                LastExpansionContribution, aPeriod)
                              /\ mLastCalcExpansionValue' =
                                    AddToDemandResult(allocation, LastExpansionContribution)
                              /\ lastCall' = Op("calcLandAllocation", aPeriod, aLandAllocationAbove, Zero,
                                                {Call("calc.setTotalLandUse", "", allocation, Zero),
                                                 Call("addToDemand", EXPANSION, allocation,
                                                      LastExpansionContribution)})
                         ELSE /\ UNCHANGED << marketDemand, mLastCalcExpansionValue >>
                              /\ lastCall' = Op("calcLandAllocation", aPeriod, aLandAllocationAbove, Zero,
                                                {Call("calc.setTotalLandUse", "", allocation, Zero)})
    /\ UNCHANGED << cfgVars, mShare, mProfitRate, mProfitScaler, mCalibrationProfitRate,
                    mLastCalcCO2Value, marketPrice, dependencies, curPer, pc >>

\* (variant: submission for the full horizon only)
LUCSubmits_AtEndYear(aPeriod, aEndYear) ==
    aEndYear = getEndYear \/ aPeriod = getmaxper - 1

\* (variant: no previous contribution is resupplied)
LastCO2Contribution_None == Zero

\* The previous contribution the leaf resupplies to addToDemand.
LastCO2Contribution == mLastCalcCO2Value

\* The condition under which calcLUCEmissions adds the emissions to the
\* carbon market.
LUCSubmits(aPeriod, aEndYear) ==
    aEndYear # getEndYear \/ aPeriod = getmaxper - 1

\* aLUCEmissions: what the carbon calculator's getNetLandUseChangeEmission
\* returns for the period's year.
calcLUCEmissions(aPeriod, aEndYear, aLUCEmissions) ==
    /\ status = "running"
    /\ pc = "solve"
    /\ IF LUCSubmits(aPeriod, aEndYear)
          THEN /\ marketDemand' = DemandAfterAdd(marketDemand, CO2_LUC, aLUCEmissions,
                                                 LastCO2Contribution, aPeriod)
               /\ mLastCalcCO2Value' = AddToDemandResult(aLUCEmissions, LastCO2Contribution)
               /\ lastCall' = Op("calcLUCEmissions", aPeriod, Q(aEndYear), Zero,
                                 {Call("calc.calc", "", Q(aEndYear), Zero),
                                  Call("addToDemand", CO2_LUC, aLUCEmissions, LastCO2Contribution)})
          ELSE /\ UNCHANGED << marketDemand, mLastCalcCO2Value >>
               /\ lastCall' = Op("calcLUCEmissions", aPeriod, Q(aEndYear), Zero,
                                 {Call("calc.calc", "", Q(aEndYear), Zero)})
    /\ UNCHANGED << cfgVars, mLandAllocation, mShare, mProfitRate, mProfitScaler,
                    mCalibrationProfitRate, mLastCalcExpansionValue, mCarbonContentCalc,
                    marketPrice, dependencies, status, curPer, pc >>

\* The solver sets a trial price of a market (or the market does not exist).
SetPrice(aMarket, aPrice) ==
    /\ status = "running"
    /\ marketPrice[aMarket] # aPrice
    /\ marketPrice' = [marketPrice EXCEPT ![aMarket] = aPrice]
    /\ lastCall' = Op("SetPrice", curPer, aPrice, Zero, {})
    /\ UNCHANGED << cfgVars, leafVars, mCarbonContentCalc, marketDemand, dependencies,
                    status, curPer, pc >>


(***************************************************************************)
(* Inputs of the operations.                                               *)
(***************************************************************************)
RawProfits      == { Q(-1), Q(0), Q(4) }
SiblingLands    == { Q(0), Q(2) }
AvgProfits      == { Q(0), Q(4) }
NewTechProfits  == { Q(2) }
NodeShares      == { Q(0), Frac(1, 2), Q(1) }
AboveVals       == { Q(-2), Q(0), Q(4) }
Emissions       == { Q(-1), Q(3) }
CarbonPrices    == { NO_MARKET_PRICE, Zero, Frac(553, 250), Frac(-553, 250) }
ExpansionPrices == { NO_MARKET_PRICE, Q(1) }
EndYears(aPeriod) == { getper_to_yr(aPeriod), getEndYear }

(***************************************************************************)
(* Initialization alone: every configuration, completeInit.                *)
(***************************************************************************)
InitInit == InitLeaf(BOOLEAN, StartYears, GhostShares, BOOLEAN, BOOLEAN, ReadinProfiles, CarbonProfiles)
NextInit == completeInit
SpecInit == InitInit /\ [][NextInit]_vars

(***************************************************************************)
(* Calibration and forward projection over the periods.                    *)
(***************************************************************************)
InitCalib == InitLeaf(BOOLEAN, StartYears, GhostShares, {FALSE}, {TRUE}, NonNegReadinProfiles, {PlainCarbon})
NextCalib ==
    \/ completeInit
    \/ \E r \in {Q(0), Q(4)}, b \in Builds : setProfitRate(r, curPer, b)
    \/ \E s \in SiblingLands : setInitShares(NodeCalLandAllocation(s, curPer), curPer)
    \/ \E a \in AvgProfits : calculateCalibrationProfitRate(a, curPer)
    \/ \E v \in (IF mIsNewTech THEN NewTechProfits ELSE {Zero}) :
            calculateProfitScalers(v, curPer)
    \/ initCalc(curPer)
    \/ NextPeriod
SpecCalib == InitCalib /\ [][NextCalib]_vars


(***************************************************************************)
(* Market coupling: allocation and emissions submitted over the periods.   *)
(***************************************************************************)
InitMarket == InitLeaf({FALSE}, {DefaultNewTechStartYear}, {DefaultGhostShare}, BOOLEAN, {TRUE}, {[p \in Periods |-> Q(2)]}, {PlainCarbon})
NextMarket ==
    \/ completeInit
    \/ setInitShares(NodeCalLandAllocation(Q(2), curPer), curPer)
    \/ calculateCalibrationProfitRate(Q(4), curPer)
    \/ calculateProfitScalers(Zero, curPer)
    \/ initCalc(curPer)
    \/ \E a \in {Q(2), Q(4)}, b \in Builds : calcLandAllocation(a, curPer, b)
    \/ \E y \in EndYears(curPer), e \in Emissions : calcLUCEmissions(curPer, y, e)
    \/ NextPeriod
SpecMarket == InitMarket /\ [][NextMarket]_vars

(***************************************************************************)
(* Shares and allocation: calibrated, projected and normalized shares and  *)
(* the land allocated from them.                                           *)
(***************************************************************************)
InitShare == InitLeaf(BOOLEAN, StartYears, {DefaultGhostShare}, {FALSE}, {TRUE},
                      NonNegReadinProfiles, {PlainCarbon})
NextShare ==
    \/ completeInit
    \/ \E s \in SiblingLands : setInitShares(NodeCalLandAllocation(s, curPer), curPer)
    \/ calculateCalibrationProfitRate(Q(4), curPer)
    \/ \E v \in (IF mIsNewTech THEN NewTechProfits ELSE {Zero}) :
            calculateProfitScalers(v, curPer)
    \/ initCalc(curPer)
    \/ \E s \in NodeShares : NodeSetShare(s, curPer)
    \/ \E a \in AboveVals, b \in Builds : calcLandAllocation(a, curPer, b)
    \/ NextPeriod
SpecShare == InitShare /\ [][NextShare]_vars

(***************************************************************************)
(* Allocation within one period, for every parent allocation and share.    *)
(***************************************************************************)
InitAlloc == InitLeaf({FALSE}, {DefaultNewTechStartYear}, {DefaultGhostShare}, BOOLEAN, {TRUE},
                      NonNegReadinProfiles, {PlainCarbon})
NextAlloc ==
    \/ completeInit
    \/ \E s \in SiblingLands : setInitShares(NodeCalLandAllocation(s, curPer), curPer)
    \/ calculateCalibrationProfitRate(Q(4), curPer)
    \/ calculateProfitScalers(Zero, curPer)
    \/ initCalc(curPer)
    \/ \E s \in NodeShares : NodeSetShare(s, curPer)
    \/ \E a \in AboveVals, b \in Builds : calcLandAllocation(a, curPer, b)
SpecAlloc == InitAlloc /\ [][NextAlloc]_vars

(***************************************************************************)
(* Profit rates under changing trial prices.                               *)
(***************************************************************************)
InitProfit == InitLeaf({FALSE}, {DefaultNewTechStartYear}, {DefaultGhostShare}, BOOLEAN, {TRUE}, {[p \in Periods |-> Q(2)]}, CarbonProfiles)
NextProfit ==
    \/ completeInit
    \/ \E r \in RawProfits, b \in Builds : setProfitRate(r, curPer, b)
    \/ \E c \in CarbonPrices : SetPrice(CO2_LUC, c)
    \/ \E c \in ExpansionPrices : SetPrice(EXPANSION, c)
    \/ setInitShares(NodeCalLandAllocation(Q(2), curPer), curPer)
    \/ calculateCalibrationProfitRate(Q(4), curPer)
    \/ calculateProfitScalers(Zero, curPer)
    \/ initCalc(curPer)
    \/ calcLandShares(curPer)
SpecProfit == InitProfit /\ [][NextProfit]_vars

(***************************************************************************)
(* Calibration followed by trial evaluation at the calibration profit      *)
(* rate: the profit rate of a period is set before its calibration pass    *)
(* and kept through the trial evaluations of the period.  The ghost share  *)
(* of an entrant is read from the input unvalidated and may be negative.   *)
(***************************************************************************)
ScalerGhostShares == { DefaultGhostShare, Frac(-1, 4) }
InitScaler == InitLeaf(BOOLEAN, StartYears, ScalerGhostShares, {FALSE}, {TRUE},
                       {[p \in Periods |-> Q(2)]}, {PlainCarbon})
NextScaler ==
    \/ completeInit
    \/ \E r \in {Q(0), Q(4)} : pc = "calib0" /\ setProfitRate(r, curPer, "release")
    \/ \E s \in SiblingLands : setInitShares(NodeCalLandAllocation(s, curPer), curPer)
    \/ \E a \in AvgProfits : calculateCalibrationProfitRate(a, curPer)
    \/ \E v \in (IF mIsNewTech THEN NewTechProfits ELSE {Zero}) :
            calculateProfitScalers(v, curPer)
    \/ initCalc(curPer)
    \/ calcLandShares(curPer)
    \/ NextPeriod
SpecScaler == InitScaler /\ [][NextScaler]_vars
(***************************************************************************)
(* Calibration passes repeated after the land of a period was allocated.   *)
(***************************************************************************)
InitRecal == InitLeaf({FALSE}, {DefaultNewTechStartYear}, {DefaultGhostShare}, {FALSE}, {TRUE},
                      {[p \in Periods |-> Q(2)]}, {PlainCarbon})
NextRecal ==
    \/ completeInit
    \/ pc = "calib0" /\ setProfitRate(Q(4), curPer, "release")
    \/ \E s \in SiblingLands : setInitShares(NodeCalLandAllocation(s, curPer), curPer)
    \/ calculateCalibrationProfitRate(Q(4), curPer)
    \/ calculateProfitScalers(Zero, curPer)
    \/ initCalc(curPer)
    \/ calcLandAllocation(Q(6), curPer, "release")
    \/ Recalibrate
    \/ NextPeriod
SpecRecal == InitRecal /\ [][NextRecal]_vars
(***************************************************************************)
(* Child accessors called on a leaf, before and after completeInit.        *)
(***************************************************************************)
InitAccess == InitLeaf(BOOLEAN, {DefaultNewTechStartYear}, {DefaultGhostShare}, BOOLEAN, BOOLEAN,
                       ReadinProfiles, {PlainCarbon})
NextAccess ==
    \/ completeInit
    \/ getNumChildren
    \/ \E i \in ChildIndexes, b \in Builds : getChildAt(i, b)
    \/ \E i \in ChildIndexes, b \in Builds : getChildAtConst(i, b)
SpecAccess == InitAccess /\ [][NextAccess]_vars
(***************************************************************************)
(* Trial evaluations repeated over the periods: profit rates under the     *)
(* price of the expansion market, and the land allocated.                  *)
(***************************************************************************)
TrialAboveVals == { Q(4), Q(6) }
InitTrial == InitLeaf({FALSE}, {DefaultNewTechStartYear}, {DefaultGhostShare}, BOOLEAN, {TRUE},
                      {[p \in Periods |-> Q(2)]}, {PlainCarbon})
NextTrial ==
    \/ completeInit
    \/ \E r \in {Q(0), Q(4)} : pc = "solve" /\ setProfitRate(r, curPer, "release")
    \/ \E c \in ExpansionPrices : pc = "solve" /\ SetPrice(EXPANSION, c)
    \/ setInitShares(NodeCalLandAllocation(Q(2), curPer), curPer)
    \/ calculateCalibrationProfitRate(Q(4), curPer)
    \/ calculateProfitScalers(Zero, curPer)
    \/ initCalc(curPer)
    \/ \E a \in TrialAboveVals : calcLandAllocation(a, curPer, "release")
    \/ NextPeriod
SpecTrial == InitTrial /\ [][NextTrial]_vars

(***************************************************************************)
(* Profit rates set over the periods, under the prices of the expansion    *)
(* and carbon markets.                                                     *)
(***************************************************************************)
RateCarbonPrices == { Zero, Frac(553, 250) }
InitRate == InitLeaf({FALSE}, {DefaultNewTechStartYear}, {DefaultGhostShare}, BOOLEAN, {TRUE},
                     {[p \in Periods |-> Q(2)]}, {PlainCarbon})
NextRate ==
    \/ completeInit
    \/ \E r \in RawProfits : pc = "solve" /\ setProfitRate(r, curPer, "release")
    \/ \E c \in RateCarbonPrices : pc = "solve" /\ SetPrice(CO2_LUC, c)
    \/ \E c \in ExpansionPrices : pc = "solve" /\ SetPrice(EXPANSION, c)
    \/ setInitShares(NodeCalLandAllocation(Q(2), curPer), curPer)
    \/ calculateCalibrationProfitRate(Q(4), curPer)
    \/ calculateProfitScalers(Zero, curPer)
    \/ initCalc(curPer)
    \/ NextPeriod
SpecRate == InitRate /\ [][NextRate]_vars
(***************************************************************************)
(* The ordering of the sectors of a region, for all simul and input lists  *)
(* over the other sectors.                                                 *)
(***************************************************************************)
SectorLists ==
    { l \in [SectorNames -> SUBSET SectorNames] : \A n \in SectorNames : n \notin l[n] }
InitSector ==
    /\ LeafAsParsed({FALSE}, {DefaultNewTechStartYear}, {DefaultGhostShare}, {FALSE}, {TRUE},
                    {[p \in Periods |-> Q(2)]}, {PlainCarbon})
    /\ \E l \in SectorLists : simulList = [n \in SectorNames |-> SortedList(l[n])]
    /\ \E l \in SectorLists : inputList = [n \in SectorNames |-> SortedList(l[n])]
    /\ compared = NoComparison
NextSector == \E lhs \in SectorNames, rhs \in SectorNames : Compare(lhs, rhs)
SpecSector == InitSector /\ [][NextSector]_vars

(***************************************************************************)
(* The whole life of a leaf: every operation, one input value each.        *)
(***************************************************************************)
Init == InitLeaf(BOOLEAN, {DefaultNewTechStartYear}, {DefaultGhostShare}, BOOLEAN, {TRUE}, {[p \in Periods |-> Q(2)]}, {PlainCarbon})
Next ==
    \/ completeInit
    \/ \E b \in Builds : setProfitRate(Q(4), curPer, b)
    \/ setInitShares(NodeCalLandAllocation(Q(2), curPer), curPer)
    \/ calculateCalibrationProfitRate(Q(4), curPer)
    \/ \E v \in (IF mIsNewTech THEN NewTechProfits ELSE {Zero}) :
            calculateProfitScalers(v, curPer)
    \/ initCalc(curPer)
    \/ calcLandShares(curPer)
    \/ \E b \in Builds : calcLandAllocation(Q(6), curPer, b)
    \/ \E y \in EndYears(curPer) : calcLUCEmissions(curPer, y, Q(3))
    \/ NextPeriod
Spec == Init /\ [][Next]_vars


(***************************************************************************)
(* Properties.                                                             *)
(***************************************************************************)
\* The operation made an addToDemand call on the market.
Submitted(aCall, aMarket) ==
    \E c \in aCall.calls : c.fn = "addToDemand" /\ c.key = aMarket

\* The horizon of a calcLUCEmissions call is the full one, in a period that
\* is not the last.
FullHorizonBeforeLastPeriod(aCall) ==
    aCall.arg = Q(getEndYear) /\ aCall.per # getmaxper - 1

RECURSIVE SumUpTo(_, _)
SumUpTo(f, n) == IF n < 0 THEN Zero ELSE Add(f[n], SumUpTo(f, n - 1))

\* C1 (as amended): calcLUCEmissions always delegates to the carbon
\* calculator; it submits the emissions to the CO2_LUC market exactly when
\* the end year differs from the model's end year or the period is the last
\* one; for the full horizon in an earlier period no addToDemand call is made
\* and neither the stored previous CO2 contribution nor the market changes.
C1_SubmitsUnlessFullHorizon ==
    [][ lastCall'.op = "calcLUCEmissions" =>
          /\ Call("calc.calc", "", lastCall'.arg, Zero) \in lastCall'.calls
          /\ Submitted(lastCall', CO2_LUC) <=> ~FullHorizonBeforeLastPeriod(lastCall')
          /\ FullHorizonBeforeLastPeriod(lastCall') =>
                /\ mLastCalcCO2Value' = mLastCalcCO2Value
                /\ marketDemand' = marketDemand ]_vars

\* C1 witness: a call for the full horizon in an earlier period, made after
\* a contribution was stored, submitted nothing.
C1_Witness ==
    /\ lastCall.op = "calcLUCEmissions"
    /\ FullHorizonBeforeLastPeriod(lastCall)
    /\ ~Submitted(lastCall, CO2_LUC)
    /\ mLastCalcCO2Value # Zero

\* C1 (as claimed): calcLUCEmissions submits to the CO2_LUC market only when
\* the end year equals the model's end year or the period is the last one.
C1_SubmitsOnlyAtEndYear ==
    [][ (lastCall'.op = "calcLUCEmissions" /\ Submitted(lastCall', CO2_LUC)) =>
          (lastCall'.arg = Q(getEndYear) \/ lastCall'.per = getmaxper - 1) ]_vars

C3_AllocationIsProductOrZero ==
    (lastCall.op = "calcLandAllocation" /\ status = "running") =>
        mLandAllocation[lastCall.per] =
            IF Ge(lastCall.arg, Zero) THEN Mul(lastCall.arg, mShare[lastCall.per]) ELSE Zero

\* C3 witness: a negative parent allocation and a positive share gave 0.
C3_Witness ==
    /\ lastCall.op = "calcLandAllocation"
    /\ status = "running"
    /\ Lt(lastCall.arg, Zero)
    /\ Gt(mShare[lastCall.per], Zero)
    /\ mLandAllocation[lastCall.per] = Zero

\* C3 (as claimed): after calcLandAllocation returns, the land allocation of
\* the period is parentAllocation * share for every parentAllocation.
C3_AllocationIsProduct ==
    (lastCall.op = "calcLandAllocation" /\ status = "running") =>
        mLandAllocation[lastCall.per] = Mul(lastCall.arg, mShare[lastCall.per])

\* C4 (as claimed): once initCalc has returned for a period, the share of
\* that period lies in [0,1] (it is not the sentinel), so the assertion of
\* calcLandAllocation cannot fail.
C4_ShareInUnitInterval ==
    (status = "running" /\ pc = "solve") => ShareInRange(curPer)

\* C5: after every call of setProfitRate the profit rate of the period is
\* >= 0.
C5_ProfitRateNonNegative ==
    lastCall.op = "setProfitRate" => Ge(mProfitRate[lastCall.per], Zero)

\* C5 witness: a call whose adjusted profit plus subsidy is negative
\* returned, and the stored profit rate is 0.
C5_Witness ==
    /\ lastCall.op = "setProfitRate"
    /\ status = "running"
    /\ Lt(Add(AdjustedProfitRate(lastCall.arg, lastCall.per), getCarbonSubsidy(lastCall.per)),
          Zero)
    /\ mProfitRate[lastCall.per] = Zero

TrialOperations ==
    {"setProfitRate", "calcLandShares", "calcLandAllocation", "calcLUCEmissions"}

\* C6: setProfitRate, calcLandShares, calcLandAllocation and
\* calcLUCEmissions leave every slot of the profit scalers unchanged; a
\* scaler changes only in calculateProfitScalers and in initCalc.
C6_TrialEvaluationKeepsScalers ==
    [][ /\ lastCall'.op \in TrialOperations => mProfitScaler' = mProfitScaler
        /\ mProfitScaler' # mProfitScaler =>
              lastCall'.op \in {"calculateProfitScalers", "initCalc"} ]_vars

\* C6 witness: a trial evaluation of a leaf without profit whose calibrated
\* scaler is neither the sentinel nor zero.
C6_Witness ==
    /\ lastCall.op = "calcLandShares"
    /\ Le(mProfitRate[curPer], Zero)
    /\ mProfitScaler[curPer] \notin {UNINIT, Zero}

\* The period has been calibrated or projected.
PeriodProcessed(q) == q < curPer \/ (q = curPer /\ pc \in {"calibDone", "solve"})

Projected(f, p) == IF f[p] = UNINIT THEN f[p - 1] ELSE f[p]

\* C8 (as amended): for every period p >= 2, initCalc(p) replaces a
\* sentinel scaler by the scaler of p-1 and a sentinel share by the share of
\* p-1 and leaves other values as they are; for p = 0 and p = 1 it copies
\* nothing; no other period's slot changes.
C8_CopyForwardFromThirdPeriod ==
    [][ lastCall'.op = "initCalc" =>
          LET p == lastCall'.per
          IN  /\ p >= 2 => /\ mProfitScaler'[p] = Projected(mProfitScaler, p)
                           /\ mShare'[p] = Projected(mShare, p)
              /\ p < 2 => /\ mProfitScaler'[p] = mProfitScaler[p]
                          /\ mShare'[p] = mShare[p]
              /\ \A q \in Periods \ {p} :
                    mProfitScaler'[q] = mProfitScaler[q] /\ mShare'[q] = mShare[q] ]_vars

\* C8 witness: initCalc of a period >= 2 returned with scaler and share
\* equal to those of the period before, neither a sentinel.
C8_Witness ==
    /\ lastCall.op = "initCalc"
    /\ lastCall.per >= 2
    /\ status = "running"
    /\ mProfitScaler[lastCall.per] = mProfitScaler[lastCall.per - 1]
    /\ mShare[lastCall.per] = mShare[lastCall.per - 1]
    /\ mProfitScaler[lastCall.per] \notin {UNINIT, Zero}
    /\ mReadinLandAllocation[lastCall.per] # mReadinLandAllocation[lastCall.per - 1]

\* C8 (as claimed): for every period p >= 1, initCalc(p) replaces a
\* sentinel scaler by the scaler of p-1 and a sentinel share by the share of
\* p-1.
C8_CopyForwardFromSecondPeriod ==
    [][ (lastCall'.op = "initCalc" /\ lastCall'.per >= 1) =>
          /\ mProfitScaler'[lastCall'.per] = Projected(mProfitScaler, lastCall'.per)
          /\ mShare'[lastCall'.per] = Projected(mShare, lastCall'.per) ]_vars

\* C9: initCalc(p) ends the run exactly when the scaler of p is still the
\* sentinel after the copy-forward; when it returns the scaler of p is not
\* the sentinel.
C9_FatalIffScalerUninitialized ==
    lastCall.op = "initCalc" =>
        (status = "exited" <=> mProfitScaler[lastCall.per] = UNINIT)

\* C9 witness: initCalc ended the run in a period after the first.
C9_Witness ==
    /\ lastCall.op = "initCalc"
    /\ lastCall.per >= 1
    /\ status = "exited"

\* C10 (as claimed): completeInit of an entrant leaf without a land-use
\* history (and with no negative read-in allocation) does not end the run.
C10_EntrantNeedsNoHistory ==
    (lastCall.op = "completeInit" /\ mIsNewTech /\ ~mLandUseHistory
        /\ ~NegativeLandAllocation) => status = "running"

\* C11: completeInit of a non-entrant leaf without a land-use history ends
\* the run, and ends it before the history is handed to the carbon
\* calculator and before the expansion-cost market dependency is registered.
C11_MissingHistoryIsFatal ==
    (lastCall.op = "completeInit" /\ ~mIsNewTech /\ ~mLandUseHistory) =>
        /\ status = "exited"
        /\ ~mCarbonContentCalc.history
        /\ dependencies = {}
        /\ \A c \in lastCall.calls : c.fn \notin {"calc.initLandUseHistory", "addDependency"}

\* C11 witness: a non-entrant leaf that pays a land expansion cost, with
\* acceptable read-in land and no history, was stopped by completeInit.
C11_Witness ==
    /\ lastCall.op = "completeInit"
    /\ ~mIsNewTech
    /\ ~mLandUseHistory
    /\ mIsLandExpansionCost
    /\ ~NegativeLandAllocation
    /\ status = "exited"

\* C12: for a leaf with a land-use history, completeInit ends the run if and
\* only if the read-in land allocation of some period is strictly negative;
\* a read-in allocation of exactly 0 is accepted.
C12_FatalIffNegativeAllocation ==
    (lastCall.op = "completeInit" /\ mLandUseHistory) =>
        (status = "exited" <=> \E p \in Periods : Lt(mReadinLandAllocation[p], Zero))

\* C12 witness: a leaf whose read-in allocation is 0 in every period
\* completed its initialization.
C12_Witness ==
    /\ lastCall.op = "completeInit"
    /\ mLandUseHistory
    /\ \A p \in Periods : mReadinLandAllocation[p] = Zero
    /\ status = "running"

\* The profit rate setProfitRate would store if a market without a price
\* were treated as absent: no expansion cost and no subsidy from it.
ProfitRateIgnoringAbsentMarkets(aProfitRate, aPeriod) ==
    Max(Add(IF mIsLandExpansionCost /\ getPrice(EXPANSION, aPeriod) # NO_MARKET_PRICE
               THEN Sub(aProfitRate, getPrice(EXPANSION, aPeriod))
               ELSE aProfitRate,
            IF getPrice(CO2_LUC, aPeriod) # NO_MARKET_PRICE
               THEN getCarbonSubsidy(aPeriod)
               ELSE Zero),
        Zero)

\* C13 (as claimed): a NO_MARKET_PRICE returned by getPrice, for the carbon
\* market or the expansion-cost market, is never used as a number: the
\* profit rate setProfitRate stores is the one computed without that market.
C13_SentinelNeverUsedAsNumber ==
    (lastCall.op = "setProfitRate" /\ status = "running") =>
        mProfitRate[lastCall.per] = ProfitRateIgnoringAbsentMarkets(lastCall.arg, lastCall.per)

\* C14: getCarbonSubsidy returns exactly 0 whenever the carbon price is
\* absent, zero or negative, whatever the densities, minimum densities,
\* discount rate and carbon-price increase rate of the leaf; the profit rate
\* stored is then the (expansion-adjusted) profit rate floored at 0.
C14_NoSubsidyWithoutPositivePrice ==
    lastCall.op = "setProfitRate" =>
        \A c \in lastCall.calls :
            (c.fn = "getCarbonSubsidy" /\ (c.prev = NO_MARKET_PRICE \/ Le(c.prev, Zero))) =>
                /\ c.val = Zero
                /\ mProfitRate[lastCall.per] =
                      Max(AdjustedProfitRate(lastCall.arg, lastCall.per), Zero)

\* C14 witness: setProfitRate ran under a negative carbon price for a leaf
\* whose densities and rates would give a nonzero subsidy, and got none.
C14_Witness ==
    /\ lastCall.op = "setProfitRate"
    /\ status = "running"
    /\ Lt(getPrice(CO2_LUC, lastCall.per), Zero)
    /\ CarbonSubsidyValue(getPrice(CO2_LUC, lastCall.per), lastCall.per) # Zero
    /\ Call("getCarbonSubsidy", CO2_LUC, Zero, getPrice(CO2_LUC, lastCall.per)) \in lastCall.calls
    /\ mProfitRate[lastCall.per] = lastCall.arg
    /\ lastCall.arg # Zero

\* C15: in calcLandShares a leaf whose profit rate of the period is <= 0
\* passes scaler 0 to calcUnnormalizedShare and returns weight 0, whatever
\* its calibrated scaler; a leaf with a positive profit rate passes its
\* calibrated scaler unchanged.
C15_NoProfitNoWeight ==
    lastCall.op = "calcLandShares" =>
        LET p == lastCall.per
        IN  /\ Le(mProfitRate[p], Zero) =>
                  /\ lastCall.calls = {Call("calcUnnormalizedShare", "", Zero, mProfitRate[p])}
                  /\ lastCall.ret = Zero
            /\ Gt(mProfitRate[p], Zero) =>
                  lastCall.calls =
                      {Call("calcUnnormalizedShare", "", mProfitScaler[p], mProfitRate[p])}

\* C15 witness: a leaf calibrated to a positive scaler and then left without
\* profit contributed weight 0.
C15_Witness ==
    /\ lastCall.op = "calcLandShares"
    /\ Le(mProfitRate[lastCall.per], Zero)
    /\ Gt(mProfitScaler[lastCall.per], Zero)
    /\ lastCall.ret = Zero

\* C16 (as claimed): every scaler calculateProfitScalers leaves in a slot it
\* wrote is >= 0, for entrant and non-entrant leaves alike.
C16_StoredScalersNonNegative ==
    lastCall.op = "calculateProfitScalers" =>
        /\ Ge(mProfitScaler[lastCall.per], Zero)
        /\ mIsNewTech => Ge(mProfitScaler[NewTechStartPeriod], Zero)

\* The degenerate case of the calibration inversion: the calibration profit
\* or the observed profit of the period is exactly 0.
DegenerateCalibration(aPeriod) ==
    mCalibrationProfitRate[aPeriod] = Zero \/ mProfitRate[aPeriod] = Zero

\* C17: for a non-entrant leaf, calculateProfitScalers(p) sets the scaler of
\* p to 0 without calling calcShareWeight when the calibration profit rate
\* or the profit rate of p is exactly 0; otherwise it calls calcShareWeight
\* with the share and the profit rate of p and stores the result.
C17_DegenerateCalibrationGivesZero ==
    (lastCall.op = "calculateProfitScalers" /\ ~mIsNewTech) =>
        LET p == lastCall.per
        IN  IF DegenerateCalibration(p)
               THEN /\ mProfitScaler[p] = Zero
                    /\ \A c \in lastCall.calls : c.fn # "calcShareWeight"
               ELSE /\ mProfitScaler[p] = calcShareWeight(mShare[p], mProfitRate[p], p)
                    /\ Call("calcShareWeight", "", mShare[p], mProfitRate[p]) \in lastCall.calls

\* C17 witness: a leaf with a positive share and profit rate but a zero
\* calibration profit rate got scaler 0.
C17_Witness ==
    /\ lastCall.op = "calculateProfitScalers"
    /\ ~mIsNewTech
    /\ mCalibrationProfitRate[lastCall.per] = Zero
    /\ Gt(mProfitRate[lastCall.per], Zero)
    /\ Gt(mShare[lastCall.per], Zero)
    /\ mProfitScaler[lastCall.per] = Zero

\* C18 (as amended): calculateProfitScalers(p) leaves the scaler of every
\* period q # p unchanged, except that for an entrant leaf it also writes
\* the scaler of the leaf's start period.
C18_WritesOwnAndStartPeriodOnly ==
    [][ lastCall'.op = "calculateProfitScalers" =>
          \A q \in Periods :
              (q # lastCall'.per /\ ~(mIsNewTech /\ q = NewTechStartPeriod)) =>
                  mProfitScaler'[q] = mProfitScaler[q] ]_vars

\* C18 witness: a calibration pass of an entrant for a period before its
\* start period has filled the start period's slot and left a later slot at
\* the sentinel.
C18_Witness ==
    /\ lastCall.op = "calculateProfitScalers"
    /\ mIsNewTech
    /\ lastCall.per < NewTechStartPeriod
    /\ mProfitScaler[NewTechStartPeriod] \notin {UNINIT, Zero}
    /\ \E q \in Periods : q > lastCall.per /\ mProfitScaler[q] = UNINIT

\* C18 (as claimed): calculateProfitScalers(p) leaves the scaler of every
\* period q # p unchanged.
C18_WritesOwnPeriodOnly ==
    [][ lastCall'.op = "calculateProfitScalers" =>
          \A q \in Periods \ {lastCall'.per} : mProfitScaler'[q] = mProfitScaler[q] ]_vars

\* The trial evaluation last made is one of a non-entrant leaf in a period
\* whose scaler comes from the period's own calibration pass (initCalc fills
\* no slot of such a period by copy-forward), at a nonzero profit rate.
TrialAfterOwnCalibration ==
    /\ lastCall.op = "calcLandShares"
    /\ ~mIsNewTech
    /\ ~CopiesForward(lastCall.per)
    /\ mProfitRate[lastCall.per] # Zero

\* C19 (as amended): for a non-entrant leaf with a nonzero profit rate and a
\* nonzero calibration profit rate, after setInitShares and
\* calculateProfitScalers for a period, calcLandShares at the same profit
\* rate returns the calibration share of the period.
C19_RoundTripUnlessDegenerate ==
    (TrialAfterOwnCalibration /\ mCalibrationProfitRate[lastCall.per] # Zero) =>
        lastCall.ret = mShare[lastCall.per]

\* C19 witness: a leaf calibrated to a share of one half, with calibration
\* profit rate and profit rate that differ, got its share back.
C19_Witness ==
    /\ TrialAfterOwnCalibration
    /\ mShare[lastCall.per] = Frac(1, 2)
    /\ mCalibrationProfitRate[lastCall.per] \notin {Zero, mProfitRate[lastCall.per]}
    /\ lastCall.ret = Frac(1, 2)

\* C19 (as claimed): for a non-entrant leaf with a nonzero profit rate, after
\* setInitShares and calculateProfitScalers for a period, calcLandShares at
\* the same profit rate returns the calibration share of the period.
C19_RoundTrip ==
    TrialAfterOwnCalibration => lastCall.ret = mShare[lastCall.per]

\* C20: when the parent's allocation of a period is 0, setInitShares stores
\* share 0 (the division by the parent allocation is not made), and
\* calcLandAllocation stores land allocation 0 and leaves the share as it is.
C20_ZeroParentAllocation ==
    [][ /\ (lastCall'.op = "setInitShares" /\ lastCall'.arg = Zero) =>
              mShare'[lastCall'.per] = Zero
        /\ (lastCall'.op = "calcLandAllocation" /\ lastCall'.arg = Zero
                /\ status' = "running") =>
              /\ mLandAllocation'[lastCall'.per] = Zero
              /\ mShare' = mShare ]_vars

\* C20 witness: a leaf under a parent without land, calibrated to share 0,
\* was allocated no land.
C20_Witness ==
    /\ lastCall.op = "calcLandAllocation"
    /\ lastCall.arg = Zero
    /\ status = "running"
    /\ mReadinLandAllocation[lastCall.per] = Zero
    /\ mShare[lastCall.per] = Zero
    /\ mLandAllocation[lastCall.per] = Zero

\* C21: setInitShares(parentAllocationAbove, p) sets the share of p to the
\* read-in land allocation of p divided by the parent allocation (0 when the
\* parent allocation is not positive), whatever the last computed allocation
\* of p is, returns share[p] * profitRate[p], and changes the share of no
\* other period.
C21_InitShareFromReadinAllocation ==
    [][ lastCall'.op = "setInitShares" =>
          LET p == lastCall'.per
              above == lastCall'.arg
          IN  /\ mShare'[p] = IF Gt(above, Zero)
                                 THEN Div(mReadinLandAllocation[p], above)
                                 ELSE Zero
              /\ lastCall'.ret = Mul(mShare'[p], mProfitRate[p])
              /\ \A q \in Periods \ {p} : mShare'[q] = mShare[q] ]_vars

\* C21 witness: a calibration pass made after the land of the period was
\* allocated differently from the read-in land gave a share strictly
\* between 0 and 1 and a nonzero return value.
C21_Witness ==
    /\ lastCall.op = "setInitShares"
    /\ mLandAllocation[lastCall.per] # mReadinLandAllocation[lastCall.per]
    /\ Gt(mShare[lastCall.per], Zero)
    /\ Lt(mShare[lastCall.per], Q(1))
    /\ lastCall.ret # Zero

\* C22 (as stated): after calculateCalibrationProfitRate(avg, p) the
\* calibration profit rate of p is calcImpliedCost(share[p], avg, p) for a
\* non-entrant leaf and the parent's entrant-profit value for an entrant.
C22_EntrantRateSetByCalibrationProfitRate ==
    lastCall.op = "calculateCalibrationProfitRate" =>
        IF ~mIsNewTech
           THEN mCalibrationProfitRate[lastCall.per] =
                    calcImpliedCost(mShare[lastCall.per], lastCall.arg, lastCall.per)
           ELSE mCalibrationProfitRate[lastCall.per] \in NewTechProfits

\* C22 (amended): calculateCalibrationProfitRate(avg, p) stores
\* calcImpliedCost(share[p], avg, p) for a non-entrant leaf and leaves every
\* calibration profit rate of an entrant as it was; an entrant's rate of p
\* becomes the parent's entrant-profit value in calculateProfitScalers(p).
C22_EntrantRateSetByProfitScalers ==
    [][ /\ lastCall'.op = "calculateCalibrationProfitRate" =>
              IF ~mIsNewTech
                 THEN mCalibrationProfitRate'[lastCall'.per] =
                          calcImpliedCost(mShare[lastCall'.per], lastCall'.arg, lastCall'.per)
                 ELSE mCalibrationProfitRate' = mCalibrationProfitRate
        /\ (lastCall'.op = "calculateProfitScalers" /\ mIsNewTech) =>
              mCalibrationProfitRate'[lastCall'.per] = lastCall'.arg ]_vars

\* C22 witness: an entrant with a nonzero share went through
\* calculateCalibrationProfitRate with a nonzero average profit and its rate
\* of the period is not the parent's value.
C22_Witness ==
    /\ lastCall.op = "calculateCalibrationProfitRate"
    /\ mIsNewTech
    /\ lastCall.arg # Zero
    /\ mShare[lastCall.per] # Zero
    /\ mCalibrationProfitRate[lastCall.per] \notin NewTechProfits

\* C23: a child accessor (getChildAt, either overload) called on a leaf
\* always signals a programming error and never completes returning a value
\* to the caller; getNumChildren on a leaf always returns 0.
C23_ChildAccessAlwaysSignalled ==
    /\ lastCall.op \in {"getChildAt", "getChildAt const"} => status = "aborted"
    /\ lastCall.op = "getNumChildren" => lastCall.ret = Zero

\* C24: re-evaluation is idempotent: setProfitRate called again with the
\* same arguments under unchanged prices, or calcLandAllocation called again
\* with the same parent allocation and period, leaves the profit rates, the
\* shares, the land allocations and the market demand totals as they were
\* after the first call.
C24_IdempotentReevaluation ==
    [][ ( /\ lastCall.op \in {"setProfitRate", "calcLandAllocation"}
          /\ lastCall'.op = lastCall.op
          /\ lastCall'.per = lastCall.per
          /\ lastCall'.arg = lastCall.arg )
        => /\ mProfitRate' = mProfitRate
           /\ mShare' = mShare
           /\ mLandAllocation' = mLandAllocation
           /\ marketDemand' = marketDemand ]_vars

\* C24 witness: calcLandAllocation was repeated for a leaf with expansion
\* cost: the call resupplied the nonzero value of the call before, and the
\* total of the period is that value.
C24_Witness ==
    /\ lastCall.op = "calcLandAllocation"
    /\ \E c \in lastCall.calls :
          /\ c.fn = "addToDemand"
          /\ c.val # Zero
          /\ c.prev = c.val
          /\ marketDemand[EXPANSION][lastCall.per] = c.val

\* C25: calcLandShares, called any number of times under different trial
\* profit rates, never modifies the share of its period nor the share of any
\* other period; it only returns the unnormalized weight.
C25_TrialWeightsLeaveShares ==
    [][ lastCall'.op = "calcLandShares" =>
          /\ mShare' = mShare
          /\ lastCall'.ret = calcUnnormalizedShare(EffectiveScaler(lastCall'.per),
                                                   mProfitRate[lastCall'.per], lastCall'.per) ]_vars

\* C25 witness: calcLandShares returned a nonzero weight that differs from
\* the stored share of the period.
C25_Witness ==
    /\ lastCall.op = "calcLandShares"
    /\ lastCall.ret # Zero
    /\ lastCall.ret # mShare[lastCall.per]

\* C26: setProfitRate(raw, p) stores max(raw - expansionCost + carbonSubsidy, 0)
\* as the profit rate of p, where expansionCost is the price the expansion
\* market returns if the leaf is flagged as paying expansion cost and 0
\* otherwise; a leaf without the flag never reads the expansion market; the
\* profit rate of no other period changes.
C26_ProfitRateNetOfExpansionCost ==
    [][ lastCall'.op = "setProfitRate" =>
          LET p == lastCall'.per
              expansionCost == IF mIsLandExpansionCost THEN getPrice(EXPANSION, p) ELSE Zero
          IN  /\ mProfitRate'[p] =
                    Max(Add(Sub(lastCall'.arg, expansionCost), getCarbonSubsidy(p)), Zero)
              /\ ~mIsLandExpansionCost =>
                    \A c \in lastCall'.calls : ~(c.fn = "getPrice" /\ c.key = EXPANSION)
              /\ \A q \in Periods \ {p} : mProfitRate'[q] = mProfitRate[q] ]_vars

\* C26 witness: in a later period a flagged leaf paid the expansion price 1,
\* received a positive carbon subsidy and stored a positive profit rate
\* different from the one of the first period.
C26_Witness ==
    /\ lastCall.op = "setProfitRate"
    /\ lastCall.per > 0
    /\ mIsLandExpansionCost
    /\ \E c \in lastCall.calls : c.fn = "getPrice" /\ c.key = EXPANSION /\ c.val = Q(1)
    /\ \E c \in lastCall.calls : c.fn = "getCarbonSubsidy" /\ Gt(c.val, Zero)
    /\ Gt(mProfitRate[lastCall.per], Zero)
    /\ mProfitRate[lastCall.per] # mProfitRate[0]

\* C27: across periods, the net contribution of the leaf to the total of a
\* market and period equals the value most recently submitted for that
\* period: the first submission for a new period is not offset by the value
\* submitted for an earlier period.
C27_PeriodTotalIsLastSubmission ==
    \A c \in lastCall.calls :
        c.fn = "addToDemand" => marketDemand[c.key][lastCall.per] = c.val

\* C28: whenever a positive carbon price exists the subsidy computed by
\* getCarbonSubsidy is >= 0 and its assertion never fails, for every carbon
\* density relative to the configured minimum densities and every
\* combination of social discount rate and carbon-price increase rate.
C28_SubsidyNeverNegative ==
    lastCall.op = "setProfitRate" =>
        /\ status # "aborted"
        /\ \A c \in lastCall.calls :
              (c.fn = "getCarbonSubsidy" /\ CarbonPriceExists(c.prev)) => Ge(c.val, Zero)

\* The names held by a list.
Names(aList) == { aList[i] : i \in 1..Len(aList) }

\* A simul exists between two sectors.
SimulBetween(a, b) == b \in Names(simulList[a]) \/ a \in Names(simulList[b])

\* C29: DependencyOrdering orders sectors by input dependency: for two
\* sectors A and B with no simul between them where A lists B as an input
\* (and B does not list A), B is ordered before A -- comp(B, A) is true and
\* comp(A, B) is false -- whatever the alphabetical order of their names.
C29_InputOrderedBeforeUser ==
    LET B == compared.lhs
        A == compared.rhs
    IN  ( /\ compared # NoComparison
          /\ A # B
          /\ ~SimulBetween(A, B)
          /\ B \in Names(inputList[A])
          /\ A \notin Names(inputList[B]) )
        => (compared.ret /\ ~DependencyOrdering(A, B))

\* C30: DependencyOrdering is a strict weak ordering over the sectors of the
\* region, whatever their simul and input lists: irreflexive, asymmetric,
\* transitive, with transitive incomparability.
C30_StrictWeakOrdering ==
    LET comp(a, b) == DependencyOrdering(a, b)
        incomparable(a, b) == ~comp(a, b) /\ ~comp(b, a)
    IN  compared # NoComparison =>
          /\ \A a \in SectorNames : ~comp(a, a)
          /\ \A a, b \in SectorNames : comp(a, b) => ~comp(b, a)
          /\ \A a, b, c \in SectorNames : (comp(a, b) /\ comp(b, c)) => comp(a, c)
          /\ \A a, b, c \in SectorNames :
                (incomparable(a, b) /\ incomparable(b, c)) => incomparable(a, c)

====
